---- MODULE Spec2Model ----
(***************************************************************************)
(* Model of BookQueue (src/models.py): the priority dispatch queue, the    *)
(* status registry, cancellation flags and the refresh (reaper) pass.      *)
(* Every public method is one action; the handler runs to completion (or   *)
(* to the point where it blocks for ever) inside the action.               *)
(* The retry loop of the page fetch (src/cloudflare_bypasser.py, _get and  *)
(* _bypass) is modelled beside it, on variables of its own.                *)
(***************************************************************************)
EXTENDS Integers, Sequences, FiniteSets, Bags, TLC

\* ---------------------------------------------------------------- bounds
MaxTime == 2          \* clock readings are 0..MaxTime
MaxQueue == 3         \* entries the PriorityQueue may hold
MaxTokens == 3        \* Event objects created over a run
MaxCalls == 4         \* calls made on the queue over a run
MaxRetryArg == 2      \* _get is called with retry in 0..MaxRetryArg
MaxAttempts == 6      \* nested _get calls that are followed

\* MAX_RETRY of env: the default of _bypass's max_retries
MAX_RETRY == 2

\* STATUS_TIMEOUT, in clock ticks (timedelta(seconds=STATUS_TIMEOUT))
STATUS_TIMEOUT == 1

Ids == {"a", "b", "c"}
\* the ids the callers of the interleaving specifications pass
CallerIds == {"a", "b"}
Paths == {"f"}
Priorities == {0, 1}
Times == 0..MaxTime
Progresses == {50}

\* ---------------------------------------------------------------- values
QUEUED == "queued"
DOWNLOADING == "downloading"
AVAILABLE == "available"
ERROR == "error"
DONE == "done"
CANCELLED == "cancelled"
QueueStatus == {QUEUED, DOWNLOADING, AVAILABLE, ERROR, DONE, CANCELLED}

\* Python None, for a path and for an id
NoPath == "None"
NoId == "-"

\* QueueItem(book_id, priority, added_time)
QueueItem(book_id, priority, added_time) ==
    [book_id |-> book_id, priority |-> priority, added_time |-> added_time]

\* an ordering that forgets the priority
LtByArrival(self, other) == self.added_time < other.added_time

\* QueueItem.__lt__
Lt(self, other) ==
    IF self.priority # other.priority
    THEN self.priority < other.priority
    ELSE self.added_time < other.added_time

\* BookInfo as the queue uses it: download_path, priority, progress
BookInfo(download_path, priority, progress) ==
    [download_path |-> download_path, priority |-> priority, progress |-> progress]

VARIABLES
    queue,              \* self._queue: bag of QueueItem
    lock,               \* self._lock: "free", or the frame that holds it for ever
    statusKeys,         \* keys of self._status in dict (insertion) order
    status,             \* self._status, total over Ids; "absent" = no key
    book_data,          \* self._book_data: [present, info]
    status_timestamps,  \* self._status_timestamps; -1 = no key
    cancel_flags,       \* self._cancel_flags: id -> Event (token), 0 = no key
    active_downloads,   \* keys of self._active_downloads
    events,             \* Event objects that are set
    nextToken,          \* the next Event object to be created
    held,               \* the Event each worker was handed by get_next, 0 = none
    pending,            \* ids cancelled while waiting, not re-added since
    now,                \* the clock: time.time() / datetime.now()
    fs,                 \* paths that exist on disk
    lastOp,             \* the last call and what it returned
    calls,              \* calls made on the queue so far
    inHand,             \* get_next: the entry get_nowait returned to a worker
                        \* that has not reached "with self._lock" yet
    drain,              \* the drain-and-reinsert loop that runs under the lock
    reader,             \* get_status: "refreshed" between refresh() and the
                        \* locked section that builds the result
    getAt,              \* _get: where the innermost call stands
    asked,              \* _get: the retry argument of the outermost call
    retry,              \* _get: the retry argument of the innermost call
    attempts,           \* _get: calls of _get entered so far, nested ones included
    try_count           \* _bypass: try_count

vars == <<queue, lock, statusKeys, status, book_data, status_timestamps,
          cancel_flags, active_downloads, events, nextToken, held, pending,
          now, fs, lastOp, calls, inHand, drain, reader,
          getAt, asked, retry, attempts, try_count>>

\* the BookQueue object itself
qvars == <<queue, lock, statusKeys, status, book_data, status_timestamps,
           cancel_flags, active_downloads, events>>

\* the variables of the calls that are under way
midcall == <<inHand, drain, reader>>

\* the page fetch of cloudflare_bypasser
fetch == <<getAt, asked, retry, attempts, try_count>>

\* the BookQueue and everything around it
bookqueue == <<queue, lock, statusKeys, status, book_data, status_timestamps,
               cancel_flags, active_downloads, events, nextToken, held, pending,
               now, fs, lastOp, calls, inHand, drain, reader>>

Absent == "absent"
NoInfo == [present |-> FALSE, info |-> BookInfo(NoPath, 0, 0)]
Info(i) == [present |-> TRUE, info |-> i]

\* a call and its result: ok is the boolean returned (FALSE too when the call
\* raised or never returned), tok the Event returned, n the count returned,
\* priority and added_time the key of the entry get_next took, map the
\* priorities asked for (-1: none) by set_priority and reorder_queue, result
\* the status under which get_status lists each id ("absent": not listed),
\* order the list get_queue_order returns
Op(name, id, ok, tok, n) ==
    [name |-> name, id |-> id, ok |-> ok, tok |-> tok, n |-> n,
     priority |-> 0, added_time |-> 0, map |-> [i \in Ids |-> -1],
     result |-> [i \in Ids |-> "absent"], order |-> <<>>]

Terminal == {DONE, ERROR, CANCELLED}

\* no entry in hand
NoItem == QueueItem(NoId, 0, 0)

\* a drain loop at work: the method and its arguments (call), "take" while
\* "while not self._queue.empty()" runs and "put" while the entries go back,
\* temp_items / all_items, how many of them are back in the queue, found
Drain(call, phase, temp_items, back, found) ==
    [call |-> call, phase |-> phase, temp_items |-> temp_items, back |-> back,
     found |-> found]

\* no drain loop at work
NoDrain == Drain(Op("none", NoId, TRUE, 0, 0), "idle", <<>>, 0, FALSE)

\* ---------------------------------------------------------------- queue helpers
QueueSize == BagCardinality(queue)

\* PriorityQueue.put
Put(q, item) == q (+) SetToBag({item})

\* the entries PriorityQueue.get_nowait may return: minimal under __lt__
MinItems(q) == {i \in BagToSet(q) : \A j \in BagToSet(q) : ~Lt(j, i)}

Take(q, item) == q (-) SetToBag({item})

\* number of entries of q for book_id
EntriesOf(q, book_id) ==
    LET S == {i \in BagToSet(q) : i.book_id = book_id}
        RECURSIVE Sum(_)
        Sum(T) == IF T = {} THEN 0
                  ELSE LET x == CHOOSE x \in T : TRUE
                       IN CopiesIn(x, q) + Sum(T \ {x})
    IN Sum(S)

\* ---------------------------------------------------------------- Init
Init ==
    /\ queue = EmptyBag
    /\ lock = "free"
    /\ statusKeys = <<>>
    /\ status = [i \in Ids |-> Absent]
    /\ book_data = [i \in Ids |-> NoInfo]
    /\ status_timestamps = [i \in Ids |-> -1]
    /\ cancel_flags = [i \in Ids |-> 0]
    /\ active_downloads = {}
    /\ events = {}
    /\ nextToken = 1
    /\ held = [i \in Ids |-> 0]
    /\ pending = {}
    /\ now = 0
    /\ fs = {}
    /\ lastOp = Op("init", NoId, TRUE, 0, 0)
    /\ calls = 0
    /\ inHand = NoItem
    /\ drain = NoDrain
    /\ reader = "idle"
    /\ getAt = "idle"
    /\ asked = 0
    /\ retry = 0
    /\ attempts = 0
    /\ try_count = 0

\* BookQueue._update_status: the dict keeps a key's position, a new key goes last
KeysAfterSet(keys, st, book_id) ==
    IF st[book_id] = Absent THEN Append(keys, book_id) ELSE keys

\* add without the "already exists" check
AddAlways(book_id, priority) ==
    /\ lock = "free"
    /\ QueueSize < MaxQueue
    /\ queue' = Put(queue, QueueItem(book_id, priority, now))
    /\ book_data' = [book_data EXCEPT
           ![book_id] = Info(BookInfo(NoPath, priority, 0))]
    /\ statusKeys' = KeysAfterSet(statusKeys, status, book_id)
    /\ status' = [status EXCEPT ![book_id] = QUEUED]
    /\ status_timestamps' = [status_timestamps EXCEPT ![book_id] = now]
    /\ pending' = pending \ {book_id}
    /\ lastOp' = Op("add", book_id, TRUE, 0, priority)
    /\ UNCHANGED <<lock, cancel_flags, active_downloads, events, nextToken,
                   held, now, fs>>

\* BookQueue.add
Add(book_id, priority) ==
    /\ lock = "free"
    /\ IF status[book_id] # Absent /\ status[book_id] \notin {ERROR, DONE, CANCELLED}
       THEN UNCHANGED <<queue, statusKeys, status, book_data, status_timestamps>>
       ELSE /\ QueueSize < MaxQueue
            /\ queue' = Put(queue, QueueItem(book_id, priority, now))
            /\ book_data' = [book_data EXCEPT
                   ![book_id] = Info(BookInfo(NoPath, priority, 0))]
            /\ statusKeys' = KeysAfterSet(statusKeys, status, book_id)
            /\ status' = [status EXCEPT ![book_id] = QUEUED]
            /\ status_timestamps' = [status_timestamps EXCEPT ![book_id] = now]
    /\ pending' = pending \ {book_id}
    /\ lastOp' = Op("add", book_id, TRUE, 0, priority)
    /\ UNCHANGED <<lock, cancel_flags, active_downloads, events, nextToken,
                   held, now, fs>>

\* what the worker still holds once the statuses are st: a handle is dropped
\* when its job reaches a terminal status or leaves the registry
HeldAfter(st) ==
    [i \in Ids |-> IF st[i] \in Terminal \cup {Absent} THEN 0 ELSE held[i]]

\* BookQueue.get_next: get_nowait outside the lock, then the locked section;
\* a cancelled entry makes the method call itself while it holds the lock.
\* The inner call returns None on an empty queue (queue.Empty is caught inside
\* it) and otherwise takes an entry and blocks on the non-reentrant Lock.
GetNextEmpty ==
    /\ lock = "free"
    /\ queue = EmptyBag
    /\ lastOp' = Op("get_next", NoId, TRUE, 0, 0)
    /\ UNCHANGED <<qvars, nextToken, held, pending, now, fs>>

\* a dispatch that hands out the Event already registered for the id, if any
GetNextDispatchReusingFlag ==
    /\ lock = "free"
    /\ nextToken <= MaxTokens
    /\ \E item \in MinItems(queue) :
        LET book_id == item.book_id
            cancel_flag == IF cancel_flags[book_id] # 0 THEN cancel_flags[book_id]
                           ELSE nextToken
        IN
        /\ status[book_id] # CANCELLED
        /\ queue' = Take(queue, item)
        /\ cancel_flags' = [cancel_flags EXCEPT ![book_id] = cancel_flag]
        /\ active_downloads' = active_downloads \cup {book_id}
        /\ held' = [held EXCEPT ![book_id] = cancel_flag]
        /\ lastOp' = [Op("get_next", book_id, TRUE, cancel_flag, 0) EXCEPT
                          !.priority = item.priority,
                          !.added_time = item.added_time]
    /\ nextToken' = nextToken + 1
    /\ UNCHANGED <<lock, statusKeys, status, book_data, status_timestamps,
                   events, pending, now, fs>>

GetNextDispatch ==
    /\ lock = "free"
    /\ nextToken <= MaxTokens
    /\ \E item \in MinItems(queue) :
        LET book_id == item.book_id IN
        /\ status[book_id] # CANCELLED
        /\ queue' = Take(queue, item)
        /\ cancel_flags' = [cancel_flags EXCEPT ![book_id] = nextToken]
        /\ active_downloads' = active_downloads \cup {book_id}
        /\ held' = [held EXCEPT ![book_id] = nextToken]
        /\ lastOp' = [Op("get_next", book_id, TRUE, nextToken, 0) EXCEPT
                          !.priority = item.priority,
                          !.added_time = item.added_time]
    /\ nextToken' = nextToken + 1
    /\ UNCHANGED <<lock, statusKeys, status, book_data, status_timestamps,
                   events, pending, now, fs>>

GetNextSkipEmpty ==
    /\ lock = "free"
    /\ \E item \in MinItems(queue) :
        /\ status[item.book_id] = CANCELLED
        /\ Take(queue, item) = EmptyBag
        /\ queue' = Take(queue, item)
    /\ lastOp' = Op("get_next", NoId, TRUE, 0, 0)
    /\ UNCHANGED <<lock, statusKeys, status, book_data, status_timestamps,
                   cancel_flags, active_downloads, events, nextToken, held,
                   pending, now, fs>>

GetNextSkipBlock ==
    /\ lock = "free"
    /\ \E item \in MinItems(queue) :
        /\ status[item.book_id] = CANCELLED
        /\ \E inner \in MinItems(Take(queue, item)) :
               queue' = Take(Take(queue, item), inner)
    /\ lock' = "get_next"
    /\ lastOp' = Op("get_next", NoId, FALSE, 0, 0)
    /\ UNCHANGED <<statusKeys, status, book_data, status_timestamps,
                   cancel_flags, active_downloads, events, nextToken, held,
                   pending, now, fs>>

GetNext == GetNextEmpty \/ GetNextDispatch \/ GetNextSkipEmpty \/ GetNextSkipBlock

\* BookQueue.update_status
UpdateStatus(book_id, new_status) ==
    /\ lock = "free"
    /\ statusKeys' = KeysAfterSet(statusKeys, status, book_id)
    /\ status' = [status EXCEPT ![book_id] = new_status]
    /\ status_timestamps' = [status_timestamps EXCEPT ![book_id] = now]
    /\ IF new_status \in {AVAILABLE, ERROR, DONE, CANCELLED}
       THEN /\ active_downloads' = active_downloads \ {book_id}
            /\ cancel_flags' = [cancel_flags EXCEPT ![book_id] = 0]
       ELSE UNCHANGED <<active_downloads, cancel_flags>>
    /\ held' = HeldAfter(status')
    /\ pending' = pending \ {book_id}
    /\ lastOp' = Op("update_status", book_id, TRUE, 0, 0)
    /\ UNCHANGED <<queue, lock, book_data, events, nextToken, now, fs>>

\* BookQueue.update_download_path
UpdateDownloadPath(book_id, download_path) ==
    /\ lock = "free"
    /\ book_data' = IF book_data[book_id].present
                    THEN [book_data EXCEPT ![book_id].info.download_path = download_path]
                    ELSE book_data
    /\ lastOp' = Op("update_download_path", book_id, TRUE, 0, 0)
    /\ UNCHANGED <<queue, lock, statusKeys, status, status_timestamps, cancel_flags,
                   active_downloads, events, nextToken, held, pending, now, fs>>

\* BookQueue.update_progress
UpdateProgress(book_id, progress) ==
    /\ lock = "free"
    /\ book_data' = IF book_data[book_id].present
                    THEN [book_data EXCEPT ![book_id].info.progress = progress]
                    ELSE book_data
    /\ lastOp' = Op("update_progress", book_id, TRUE, 0, 0)
    /\ UNCHANGED <<queue, lock, statusKeys, status, status_timestamps, cancel_flags,
                   active_downloads, events, nextToken, held, pending, now, fs>>

\* cancel_download that cancels whatever is tracked
CancelDownloadAnyStatus(book_id) ==
    /\ lock = "free"
    /\ IF status[book_id] # Absent
       THEN /\ events' = IF cancel_flags[book_id] # 0
                         THEN events \cup {cancel_flags[book_id]}
                         ELSE events
            /\ status' = [status EXCEPT ![book_id] = CANCELLED]
            /\ status_timestamps' = [status_timestamps EXCEPT ![book_id] = now]
            /\ lastOp' = Op("cancel_download", book_id, TRUE, 0, 0)
       ELSE /\ UNCHANGED <<events, status, status_timestamps>>
            /\ lastOp' = Op("cancel_download", book_id, FALSE, 0, 0)
    /\ held' = HeldAfter(status')
    /\ UNCHANGED <<queue, lock, statusKeys, book_data, cancel_flags,
                   active_downloads, nextToken, pending, now, fs>>

\* BookQueue.cancel_download
CancelDownload(book_id) ==
    /\ lock = "free"
    /\ LET current_status == status[book_id] IN
       IF current_status = DOWNLOADING
       THEN /\ events' = IF cancel_flags[book_id] # 0
                         THEN events \cup {cancel_flags[book_id]}
                         ELSE events
            /\ status' = [status EXCEPT ![book_id] = CANCELLED]
            /\ status_timestamps' = [status_timestamps EXCEPT ![book_id] = now]
            /\ pending' = pending
            /\ lastOp' = Op("cancel_download", book_id, TRUE, 0, 0)
       ELSE IF current_status = QUEUED
       THEN /\ events' = events
            /\ status' = [status EXCEPT ![book_id] = CANCELLED]
            /\ status_timestamps' = [status_timestamps EXCEPT ![book_id] = now]
            /\ pending' = IF held[book_id] = 0 /\ EntriesOf(queue, book_id) > 0
                          THEN pending \cup {book_id}
                          ELSE pending
            /\ lastOp' = Op("cancel_download", book_id, TRUE, 0, 0)
       ELSE /\ UNCHANGED <<events, status, status_timestamps, pending>>
            /\ lastOp' = Op("cancel_download", book_id, FALSE, 0, 0)
    /\ held' = HeldAfter(status')
    /\ UNCHANGED <<queue, lock, statusKeys, book_data, cancel_flags,
                   active_downloads, nextToken, now, fs>>

\* the order in which repeated get_nowait calls empty q
RECURSIVE DrainAll(_)
DrainAll(q) ==
    IF q = EmptyBag THEN <<>>
    ELSE LET item == CHOOSE i \in MinItems(q) : TRUE
         IN <<item>> \o DrainAll(Take(q, item))

\* "for item in temp_items: self._queue.put(item)"
RECURSIVE PutAll(_, _)
PutAll(q, items) ==
    IF items = <<>> THEN q ELSE PutAll(Put(q, Head(items)), Tail(items))

\* a drain loop that stamps the re-keyed entry with the current time
SetPriorityItemsRestamped(items, book_id, new_priority) ==
    [k \in 1..Len(items) |->
        IF items[k].book_id = book_id
        THEN QueueItem(book_id, new_priority, now)
        ELSE items[k]]

\* the drain loop of set_priority: temp_items
SetPriorityItems(items, book_id, new_priority) ==
    [k \in 1..Len(items) |->
        IF items[k].book_id = book_id
        THEN QueueItem(book_id, new_priority, items[k].added_time)
        ELSE items[k]]

\* BookQueue.set_priority
SetPriority(book_id, new_priority) ==
    /\ lock = "free"
    /\ IF status[book_id] = Absent \/ status[book_id] # QUEUED
       THEN /\ UNCHANGED <<queue, book_data>>
            /\ lastOp' = [Op("set_priority", book_id, FALSE, 0, 0) EXCEPT
                              !.map[book_id] = new_priority]
       ELSE LET items == DrainAll(queue)
                found == \E k \in 1..Len(items) : items[k].book_id = book_id
            IN /\ queue' = PutAll(EmptyBag, SetPriorityItems(items, book_id, new_priority))
               /\ book_data' = IF found /\ book_data[book_id].present
                               THEN [book_data EXCEPT ![book_id].info.priority = new_priority]
                               ELSE book_data
               /\ lastOp' = [Op("set_priority", book_id, found, 0, 0) EXCEPT
                                 !.map[book_id] = new_priority]
    /\ UNCHANGED <<lock, statusKeys, status, status_timestamps, cancel_flags,
                   active_downloads, events, nextToken, held, pending, now, fs>>

\* a book_priorities dict: -1 stands for "no key"
PriorityMaps == [Ids -> Priorities \cup {-1}]
\* the dicts the callers pass
CallerMaps == {m \in PriorityMaps : \A i \in Ids \ CallerIds : m[i] = -1}

\* the drain loop of reorder_queue: all_items
ReorderItems(items, book_priorities) ==
    [k \in 1..Len(items) |->
        IF book_priorities[items[k].book_id] # -1
        THEN QueueItem(items[k].book_id, book_priorities[items[k].book_id],
                       items[k].added_time)
        ELSE items[k]]

\* BookQueue.reorder_queue
ReorderQueue(book_priorities) ==
    /\ lock = "free"
    /\ LET items == DrainAll(queue)
           hit == {items[k].book_id : k \in 1..Len(items)}
       IN /\ queue' = PutAll(EmptyBag, ReorderItems(items, book_priorities))
          /\ book_data' =
                [i \in Ids |->
                    IF i \in hit /\ book_priorities[i] # -1 /\ book_data[i].present
                    THEN [book_data[i] EXCEPT !.info.priority = book_priorities[i]]
                    ELSE book_data[i]]
    /\ lastOp' = [Op("reorder_queue", NoId, TRUE, 0, 0) EXCEPT
                      !.map = book_priorities]
    /\ UNCHANGED <<lock, statusKeys, status, status_timestamps, cancel_flags,
                   active_downloads, events, nextToken, held, pending, now, fs>>

\* the sort key of get_queue_order: (x['priority'], x['added_time'])
KeyBefore(x, y) ==
    \/ x.priority < y.priority
    \/ x.priority = y.priority /\ x.added_time < y.added_time

\* sorted(queue_items, key=...): a stable sort, here by insertion
RECURSIVE SortedByKey(_)
SortedByKey(items) ==
    IF items = <<>> THEN <<>>
    ELSE LET rest == SortedByKey(SubSeq(items, 1, Len(items) - 1))
             x == items[Len(items)]
             after == {k \in 1..Len(rest) : KeyBefore(x, rest[k])}
             at == IF after = {} THEN Len(rest) + 1
                   ELSE CHOOSE k \in after : \A m \in after : k <= m
         IN SubSeq(rest, 1, at - 1) \o <<x>> \o SubSeq(rest, at, Len(rest))

\* queue_items: the drained entries whose id has metadata, sorted
QueueOrder(temp_items) ==
    SortedByKey(SelectSeq(temp_items, LAMBDA item : book_data[item.book_id].present))

\* get_queue_order without the put-back loop
GetQueueOrderDraining ==
    /\ lock = "free"
    /\ queue' = EmptyBag
    /\ lastOp' = [Op("get_queue_order", NoId, TRUE, 0, 0) EXCEPT
                      !.order = QueueOrder(DrainAll(queue))]
    /\ UNCHANGED <<lock, statusKeys, status, book_data, status_timestamps,
                   cancel_flags, active_downloads, events, nextToken, held,
                   pending, now, fs>>

\* BookQueue.get_queue_order: drain, then put everything back
GetQueueOrder ==
    /\ lock = "free"
    /\ queue' = PutAll(EmptyBag, DrainAll(queue))
    /\ lastOp' = [Op("get_queue_order", NoId, TRUE, 0, 0) EXCEPT
                      !.order = QueueOrder(DrainAll(queue))]
    /\ UNCHANGED <<lock, statusKeys, status, book_data, status_timestamps,
                   cancel_flags, active_downloads, events, nextToken, held,
                   pending, now, fs>>

\* BookQueue.get_active_downloads
GetActiveDownloads ==
    /\ lock = "free"
    /\ lastOp' = Op("get_active_downloads", NoId, TRUE, 0, Cardinality(active_downloads))
    /\ UNCHANGED <<qvars, nextToken, held, pending, now, fs>>

\* keys left in dict order once the keys in gone are deleted
KeysWithout(keys, gone) == SelectSeq(keys, LAMBDA k : k \notin gone)

\* clear_completed that takes the available jobs too
ClearCompletedFinished ==
    /\ lock = "free"
    /\ LET to_remove == {i \in Ids : status[i] \in {DONE, ERROR, CANCELLED, AVAILABLE}} IN
       /\ status' = [i \in Ids |-> IF i \in to_remove THEN Absent ELSE status[i]]
       /\ statusKeys' = KeysWithout(statusKeys, to_remove)
       /\ status_timestamps' =
             [i \in Ids |-> IF i \in to_remove THEN -1 ELSE status_timestamps[i]]
       /\ book_data' = [i \in Ids |-> IF i \in to_remove THEN NoInfo ELSE book_data[i]]
       /\ cancel_flags' = [i \in Ids |-> IF i \in to_remove THEN 0 ELSE cancel_flags[i]]
       /\ active_downloads' = active_downloads \ to_remove
       /\ lastOp' = Op("clear_completed", NoId, TRUE, 0, Cardinality(to_remove))
    /\ held' = HeldAfter(status')
    /\ UNCHANGED <<queue, lock, events, nextToken, pending, now, fs>>

\* BookQueue.clear_completed
ClearCompleted ==
    /\ lock = "free"
    /\ LET to_remove == {i \in Ids : status[i] \in {DONE, ERROR, CANCELLED}} IN
       /\ status' = [i \in Ids |-> IF i \in to_remove THEN Absent ELSE status[i]]
       /\ statusKeys' = KeysWithout(statusKeys, to_remove)
       /\ status_timestamps' =
             [i \in Ids |-> IF i \in to_remove THEN -1 ELSE status_timestamps[i]]
       /\ book_data' = [i \in Ids |-> IF i \in to_remove THEN NoInfo ELSE book_data[i]]
       /\ cancel_flags' = [i \in Ids |-> IF i \in to_remove THEN 0 ELSE cancel_flags[i]]
       /\ active_downloads' = active_downloads \ to_remove
       /\ lastOp' = Op("clear_completed", NoId, TRUE, 0, Cardinality(to_remove))
    /\ held' = HeldAfter(status')
    /\ UNCHANGED <<queue, lock, events, nextToken, pending, now, fs>>

\* the "for book_id, status in self._status.items()" loop of refresh; it stops
\* with KeyError at a key that _book_data lacks
RECURSIVE RefreshLoop(_, _)
RefreshLoop(keys, st) ==
    IF keys = <<>> THEN st
    ELSE LET book_id == Head(keys) IN
         IF ~st.data[book_id].present THEN [st EXCEPT !.raised = TRUE]
         ELSE LET s == st.status[book_id]
                  recorded == st.data[book_id].info.download_path
                  missing == recorded # NoPath /\ recorded \notin fs
                  path == IF missing THEN NoPath ELSE recorded
                  data1 == IF missing
                           THEN [st.data EXCEPT ![book_id].info.download_path = NoPath]
                           ELSE st.data
                  demote == s = AVAILABLE /\ path = NoPath
                  status1 == IF demote THEN [st.status EXCEPT ![book_id] = DONE]
                             ELSE st.status
                  ts1 == IF demote THEN [st.ts EXCEPT ![book_id] = now] ELSE st.ts
                  last_update == ts1[book_id]
                  stale == /\ last_update # -1
                           /\ (now - last_update) > STATUS_TIMEOUT
                           /\ s \in {DONE, ERROR, AVAILABLE, CANCELLED}
              IN RefreshLoop(Tail(keys),
                     [status |-> status1, ts |-> ts1, data |-> data1,
                      to_remove |-> IF stale THEN st.to_remove \cup {book_id}
                                    ELSE st.to_remove,
                      raised |-> FALSE])

\* the state refresh leaves behind, and whether it raised
RefreshResult ==
    LET r == RefreshLoop(statusKeys,
                 [status |-> status, ts |-> status_timestamps, data |-> book_data,
                  to_remove |-> {}, raised |-> FALSE])
    IN IF r.raised THEN [r EXCEPT !.to_remove = {}] ELSE r

\* the dict get_status builds: an id is listed under its status if it has
\* metadata
Listing(st, data) ==
    [i \in Ids |-> IF st[i] # Absent /\ data[i].present THEN st[i] ELSE Absent]

\* what refresh does to the queue object when called as "name"
RefreshAs(name) ==
    /\ lock = "free"
    /\ LET r == RefreshResult IN
       /\ status' = [i \in Ids |-> IF i \in r.to_remove THEN Absent ELSE r.status[i]]
       /\ statusKeys' = KeysWithout(statusKeys, r.to_remove)
       /\ status_timestamps' = [i \in Ids |-> IF i \in r.to_remove THEN -1 ELSE r.ts[i]]
       /\ book_data' = [i \in Ids |-> IF i \in r.to_remove THEN NoInfo ELSE r.data[i]]
       /\ lastOp' = [Op(name, NoId, ~r.raised, 0, 0) EXCEPT
                         !.result = IF name = "get_status" /\ ~r.raised
                                    THEN Listing(status', book_data')
                                    ELSE @]
    /\ held' = HeldAfter(status')
    /\ UNCHANGED <<queue, lock, cancel_flags, active_downloads, events,
                   nextToken, pending, now, fs>>

\* BookQueue.refresh
Refresh == RefreshAs("refresh")

\* BookQueue.get_status: refresh, then the snapshot, with no step of another
\* thread between the two locked sections
GetStatus == RefreshAs("get_status")

\* BookQueue.get_status, "self.refresh()": the lock is released when refresh
\* returns; a KeyError of refresh ends the call
GetStatusRefresh ==
    /\ lock = "free"
    /\ reader = "idle"
    /\ LET r == RefreshResult IN
       /\ status' = [i \in Ids |-> IF i \in r.to_remove THEN Absent ELSE r.status[i]]
       /\ statusKeys' = KeysWithout(statusKeys, r.to_remove)
       /\ status_timestamps' = [i \in Ids |-> IF i \in r.to_remove THEN -1 ELSE r.ts[i]]
       /\ book_data' = [i \in Ids |-> IF i \in r.to_remove THEN NoInfo ELSE r.data[i]]
       /\ lastOp' = IF r.raised THEN Op("get_status", NoId, FALSE, 0, 0) ELSE lastOp
       /\ reader' = IF r.raised THEN "idle" ELSE "refreshed"
    /\ held' = HeldAfter(status')
    /\ UNCHANGED <<queue, lock, cancel_flags, active_downloads, events,
                   nextToken, pending, now, fs, inHand, drain>>

\* BookQueue.get_status, the second "with self._lock": the result
GetStatusResult ==
    /\ lock = "free"
    /\ reader = "refreshed"
    /\ reader' = "idle"
    /\ lastOp' = [Op("get_status", NoId, TRUE, 0, 0) EXCEPT
                      !.result = Listing(status, book_data)]
    /\ UNCHANGED <<qvars, nextToken, held, pending, now, fs, inHand, drain>>

\* BookQueue.get_next, "self._queue.get_nowait()": it runs before the lock is
\* taken; queue.Empty makes the call return None
GetNowaitEmpty ==
    /\ inHand = NoItem
    /\ queue = EmptyBag
    /\ lastOp' = Op("get_next", NoId, TRUE, 0, 0)
    /\ UNCHANGED <<qvars, nextToken, held, pending, now, fs, inHand, drain, reader>>

GetNowait ==
    /\ inHand = NoItem
    /\ nextToken <= MaxTokens
    /\ \E item \in MinItems(queue) :
          /\ inHand' = item
          /\ queue' = Take(queue, item)
    /\ UNCHANGED <<lock, statusKeys, status, book_data, status_timestamps,
                   cancel_flags, active_downloads, events, nextToken, held,
                   pending, now, fs, lastOp, drain, reader>>

\* BookQueue.get_next, "with self._lock": the entry in hand is dispatched, or
\* it is a cancelled one and the method calls itself with the lock held
LockedDispatch ==
    /\ lock = "free"
    /\ inHand # NoItem
    /\ LET book_id == inHand.book_id IN
       /\ status[book_id] # CANCELLED
       /\ cancel_flags' = [cancel_flags EXCEPT ![book_id] = nextToken]
       /\ active_downloads' = active_downloads \cup {book_id}
       /\ held' = [held EXCEPT ![book_id] = nextToken]
       /\ lastOp' = [Op("get_next", book_id, TRUE, nextToken, 0) EXCEPT
                         !.priority = inHand.priority,
                         !.added_time = inHand.added_time]
    /\ nextToken' = nextToken + 1
    /\ inHand' = NoItem
    /\ UNCHANGED <<queue, lock, statusKeys, status, book_data, status_timestamps,
                   events, pending, now, fs, drain, reader>>

LockedSkipEmpty ==
    /\ lock = "free"
    /\ inHand # NoItem
    /\ status[inHand.book_id] = CANCELLED
    /\ queue = EmptyBag
    /\ inHand' = NoItem
    /\ lastOp' = Op("get_next", NoId, TRUE, 0, 0)
    /\ UNCHANGED <<qvars, nextToken, held, pending, now, fs, drain, reader>>

LockedSkipBlock ==
    /\ lock = "free"
    /\ inHand # NoItem
    /\ status[inHand.book_id] = CANCELLED
    /\ \E inner \in MinItems(queue) : queue' = Take(queue, inner)
    /\ lock' = "get_next"
    /\ inHand' = NoItem
    /\ lastOp' = Op("get_next", NoId, FALSE, 0, 0)
    /\ UNCHANGED <<statusKeys, status, book_data, status_timestamps,
                   cancel_flags, active_downloads, events, nextToken, held,
                   pending, now, fs, drain, reader>>

\* BookQueue.set_priority, "with self._lock" and the status check
SetPriorityBegin(book_id, new_priority) ==
    /\ lock = "free"
    /\ drain = NoDrain
    /\ LET call == [Op("set_priority", book_id, FALSE, 0, 0) EXCEPT
                        !.map[book_id] = new_priority] IN
       IF status[book_id] = Absent \/ status[book_id] # QUEUED
       THEN /\ lastOp' = call
            /\ UNCHANGED <<lock, drain>>
       ELSE /\ lock' = "drain"
            /\ drain' = Drain(call, "take", <<>>, 0, FALSE)
            /\ UNCHANGED lastOp
    /\ UNCHANGED <<queue, statusKeys, status, book_data, status_timestamps,
                   cancel_flags, active_downloads, events, nextToken, held,
                   pending, now, fs, inHand, reader>>

\* BookQueue.reorder_queue, "with self._lock"
ReorderQueueBegin(book_priorities) ==
    /\ lock = "free"
    /\ drain = NoDrain
    /\ lock' = "drain"
    /\ drain' = Drain([Op("reorder_queue", NoId, TRUE, 0, 0) EXCEPT
                           !.map = book_priorities], "take", <<>>, 0, FALSE)
    /\ UNCHANGED <<queue, statusKeys, status, book_data, status_timestamps,
                   cancel_flags, active_downloads, events, nextToken, held,
                   pending, now, fs, lastOp, inHand, reader>>

\* BookQueue.get_queue_order, "with self._lock"
GetQueueOrderBegin ==
    /\ lock = "free"
    /\ drain = NoDrain
    /\ lock' = "drain"
    /\ drain' = Drain(Op("get_queue_order", NoId, TRUE, 0, 0), "take", <<>>, 0, FALSE)
    /\ UNCHANGED <<queue, statusKeys, status, book_data, status_timestamps,
                   cancel_flags, active_downloads, events, nextToken, held,
                   pending, now, fs, lastOp, inHand, reader>>

\* one turn of "while not self._queue.empty()": get_nowait, then the entry,
\* re-keyed if the call names its id, goes to temp_items / all_items
DrainTake ==
    /\ lock = "drain"
    /\ drain.phase = "take"
    /\ \E item \in MinItems(queue) :
        LET new_priority == drain.call.map[item.book_id]
            hit == new_priority # -1
        IN /\ queue' = Take(queue, item)
           /\ drain' = [drain EXCEPT
                  !.temp_items = Append(@, IF hit
                                           THEN QueueItem(item.book_id, new_priority,
                                                          item.added_time)
                                           ELSE item),
                  !.found = @ \/ hit]
           /\ book_data' = IF hit /\ book_data[item.book_id].present
                           THEN [book_data EXCEPT
                                    ![item.book_id].info.priority = new_priority]
                           ELSE book_data
    /\ UNCHANGED <<lock, statusKeys, status, status_timestamps, cancel_flags,
                   active_downloads, events, nextToken, held, pending, now, fs,
                   lastOp, inHand, reader>>

\* "while not self._queue.empty()" finds the queue empty
DrainExit ==
    /\ lock = "drain"
    /\ drain.phase = "take"
    /\ queue = EmptyBag
    /\ drain' = [drain EXCEPT !.phase = "put"]
    /\ UNCHANGED <<qvars, nextToken, held, pending, now, fs, lastOp, inHand, reader>>

\* one turn of "for item in temp_items: self._queue.put(item)"
DrainPut ==
    /\ lock = "drain"
    /\ drain.phase = "put"
    /\ drain.back < Len(drain.temp_items)
    /\ queue' = Put(queue, drain.temp_items[drain.back + 1])
    /\ drain' = [drain EXCEPT !.back = @ + 1]
    /\ UNCHANGED <<lock, statusKeys, status, book_data, status_timestamps,
                   cancel_flags, active_downloads, events, nextToken, held,
                   pending, now, fs, lastOp, inHand, reader>>

\* the return of the drain-and-reinsert method: "return found", "return True",
\* "return sorted(queue_items, ...)", and the lock is released
DrainReturn ==
    /\ lock = "drain"
    /\ drain.phase = "put"
    /\ drain.back = Len(drain.temp_items)
    /\ lock' = "free"
    /\ lastOp' = [drain.call EXCEPT
                      !.ok = IF drain.call.name = "set_priority" THEN drain.found
                             ELSE TRUE,
                      !.order = IF drain.call.name = "get_queue_order"
                                THEN QueueOrder(drain.temp_items)
                                ELSE @]
    /\ drain' = NoDrain
    /\ UNCHANGED <<queue, statusKeys, status, book_data, status_timestamps,
                   cancel_flags, active_downloads, events, nextToken, held,
                   pending, now, fs, inHand, reader>>

\* the world outside: a file appears at, or disappears from, a path
CreateFile(path) ==
    /\ path \notin fs
    /\ fs' = fs \cup {path}
    /\ UNCHANGED <<qvars, nextToken, held, pending, now, lastOp>>

DeleteFile(path) ==
    /\ path \in fs
    /\ fs' = fs \ {path}
    /\ UNCHANGED <<qvars, nextToken, held, pending, now, lastOp>>

\* the clock advances
Tick ==
    /\ now < MaxTime
    /\ now' = now + 1
    /\ UNCHANGED <<qvars, nextToken, held, pending, fs, lastOp>>

\* a call that counts against the MaxCalls calls of a run; it runs from its
\* first line to its return with no step of another thread in between
Counted(A) ==
    calls < MaxCalls /\ calls' = calls + 1 /\ A /\ UNCHANGED <<midcall, fetch>>

\* a step that is not counted
Free(A) == A /\ UNCHANGED <<calls, midcall, fetch>>

\* the first step of a call that other threads may interleave with
Started(A) == calls < MaxCalls /\ calls' = calls + 1 /\ A /\ UNCHANGED fetch

\* a later step of such a call
Step(A) == A /\ UNCHANGED <<calls, fetch>>

\* cloudflare_bypasser._get(url, retry): the call a caller makes
GetCalled(n) ==
    /\ getAt = "idle"
    /\ getAt' = "open"
    /\ asked' = n
    /\ retry' = n
    /\ attempts' = 0
    /\ try_count' = 0

\* _get, the try block up to "_bypass(sb)": the driver is fetched and the page
\* opened, or one of the two raises
GetOpen ==
    /\ getAt = "open"
    /\ attempts < MaxAttempts
    /\ attempts' = attempts + 1
    /\ try_count' = 0
    /\ \E raised \in BOOLEAN : getAt' = IF raised THEN "except" ELSE "bypass"
    /\ UNCHANGED <<asked, retry>>

\* _bypass: one turn of "while not _is_bypassed(sb)"; a method that raises
\* counts as one that failed
BypassTurn ==
    /\ getAt = "bypass"
    /\ \E bypassed \in BOOLEAN, worked \in BOOLEAN :
          IF bypassed \/ try_count >= MAX_RETRY
          THEN getAt' = "check" /\ UNCHANGED try_count
          ELSE /\ try_count' = try_count + 1
               /\ getAt' = IF worked THEN "check" ELSE "bypass"
    /\ UNCHANGED <<asked, retry, attempts>>

\* _get, "if _is_bypassed(sb)": the page source is returned, or the attempt
\* ends without an exception and control reaches "return _get(url, retry - 1)"
GetCheck ==
    /\ getAt = "check"
    /\ \E bypassed \in BOOLEAN :
          IF bypassed
          THEN getAt' = "returned" /\ UNCHANGED retry
          ELSE getAt' = "open" /\ retry' = retry - 1
    /\ UNCHANGED <<asked, attempts, try_count>>

\* _get, the except block: "raise e" when retry == 0, otherwise control
\* reaches "return _get(url, retry - 1)"
GetExcept ==
    /\ getAt = "except"
    /\ IF retry = 0
       THEN getAt' = "raised" /\ UNCHANGED retry
       ELSE getAt' = "open" /\ retry' = retry - 1
    /\ UNCHANGED <<asked, attempts, try_count>>

\* the caller has its answer and may call again
GetDone ==
    /\ getAt \in {"returned", "raised"}
    /\ getAt' = "idle"
    /\ UNCHANGED <<asked, retry, attempts, try_count>>

\* a step of the page fetch
Fetch(A) == A /\ UNCHANGED bookqueue

\* cloudflare_bypasser: page fetches, one at a time (get holds LOCKED)
NextGet ==
    \/ \E n \in 0..MaxRetryArg : Fetch(GetCalled(n))
    \/ Fetch(GetOpen)
    \/ Fetch(BypassTurn)
    \/ Fetch(GetCheck)
    \/ Fetch(GetExcept)
    \/ Fetch(GetDone)

SpecGet == Init /\ [][NextGet]_vars

\* every method, called in any order, MaxCalls calls in all
Next ==
    \/ \E id \in CallerIds, p \in Priorities : Counted(Add(id, p))
    \/ Counted(GetNextEmpty)
    \/ Counted(GetNextDispatch)
    \/ Counted(GetNextSkipEmpty)
    \/ Counted(GetNextSkipBlock)
    \/ \E id \in CallerIds, s \in QueueStatus : Counted(UpdateStatus(id, s))
    \/ \E id \in CallerIds, path \in Paths : Counted(UpdateDownloadPath(id, path))
    \/ \E id \in CallerIds, pr \in Progresses : Counted(UpdateProgress(id, pr))
    \/ \E id \in CallerIds : Counted(CancelDownload(id))
    \/ \E id \in CallerIds, p \in Priorities : Counted(SetPriority(id, p))
    \/ \E m \in CallerMaps : Counted(ReorderQueue(m))
    \/ Counted(GetQueueOrder)
    \/ Counted(GetActiveDownloads)
    \/ Counted(ClearCompleted)
    \/ Counted(Refresh)
    \/ Counted(GetStatus)
    \/ Free(Tick)
    \/ \E path \in Paths : Free(CreateFile(path))
    \/ \E path \in Paths : Free(DeleteFile(path))

Spec == Init /\ [][Next]_vars

\* producers that add and a worker that takes, nothing else, any number of calls
NextOrder ==
    \/ \E id \in Ids, p \in Priorities : Free(Add(id, p))
    \/ Free(GetNextEmpty)
    \/ Free(GetNextDispatch)
    \/ Free(Tick)

SpecOrder == Init /\ [][NextOrder]_vars

\* the methods that move a job through its statuses
NextLifecycle ==
    \/ \E id \in CallerIds, p \in Priorities : Counted(Add(id, p))
    \/ Counted(GetNextEmpty)
    \/ Counted(GetNextDispatch)
    \/ Counted(GetNextSkipEmpty)
    \/ Counted(GetNextSkipBlock)
    \/ \E id \in CallerIds, s \in QueueStatus : Counted(UpdateStatus(id, s))
    \/ \E id \in CallerIds : Counted(CancelDownload(id))
    \/ Free(Tick)

SpecLifecycle == Init /\ [][NextLifecycle]_vars

\* the life cycle together with the bulk removal of finished jobs
NextClear ==
    \/ \E id \in CallerIds, p \in Priorities : Counted(Add(id, p))
    \/ Counted(GetNextEmpty)
    \/ Counted(GetNextDispatch)
    \/ Counted(GetNextSkipEmpty)
    \/ Counted(GetNextSkipBlock)
    \/ \E id \in CallerIds, s \in QueueStatus : Counted(UpdateStatus(id, s))
    \/ \E id \in CallerIds : Counted(CancelDownload(id))
    \/ Counted(ClearCompleted)
    \/ Free(Tick)

SpecClear == Init /\ [][NextClear]_vars

\* the methods that fill, empty and reorder the dispatch queue
NextReorder ==
    \/ \E id \in CallerIds, p \in Priorities : Counted(Add(id, p))
    \/ Counted(GetNextEmpty)
    \/ Counted(GetNextDispatch)
    \/ Counted(GetNextSkipEmpty)
    \/ Counted(GetNextSkipBlock)
    \/ \E id \in CallerIds : Counted(CancelDownload(id))
    \/ \E id \in CallerIds, p \in Priorities : Counted(SetPriority(id, p))
    \/ \E m \in CallerMaps : Counted(ReorderQueue(m))
    \/ Free(Tick)

SpecReorder == Init /\ [][NextReorder]_vars

\* the queue as a display reads it while jobs come, go and are cleared
NextDisplay ==
    \/ \E id \in CallerIds, p \in Priorities : Counted(Add(id, p))
    \/ Counted(GetNextEmpty)
    \/ Counted(GetNextDispatch)
    \/ Counted(GetNextSkipEmpty)
    \/ Counted(GetNextSkipBlock)
    \/ \E id \in CallerIds : Counted(CancelDownload(id))
    \/ Counted(ClearCompleted)
    \/ Counted(GetQueueOrder)
    \/ Free(Tick)

SpecDisplay == Init /\ [][NextDisplay]_vars

\* producers that add, cancel and add again while a worker takes, any number
\* of calls within one reading of the clock
NextRequeue ==
    \/ \E id \in CallerIds, p \in Priorities : Free(Add(id, p))
    \/ \E id \in CallerIds : Free(CancelDownload(id))
    \/ Free(GetNextEmpty)
    \/ Free(GetNextDispatch)
    \/ Free(GetNextSkipEmpty)
    \/ Free(GetNextSkipBlock)

SpecRequeue == Init /\ [][NextRequeue]_vars

\* dispatch cycles: producers add, cancel and add again, the worker takes a
\* job and reports that it is downloading; any number of calls within one
\* reading of the clock, every job with the default priority
NextCycles ==
    \/ \E id \in CallerIds : Free(Add(id, 0))
    \/ \E id \in CallerIds : Free(CancelDownload(id))
    \/ \E id \in CallerIds : Free(UpdateStatus(id, DOWNLOADING))
    \/ Free(GetNextEmpty)
    \/ Free(GetNextDispatch)
    \/ Free(GetNextSkipEmpty)
    \/ Free(GetNextSkipBlock)

SpecCycles == Init /\ [][NextCycles]_vars

\* a reader that polls get_status while producers, the worker and the clock go
\* on between its two locked sections
NextSnapshot ==
    \/ \E id \in CallerIds, p \in Priorities : Counted(Add(id, p))
    \/ \E id \in CallerIds, s \in QueueStatus : Counted(UpdateStatus(id, s))
    \/ \E id \in CallerIds : Counted(CancelDownload(id))
    \/ Started(GetStatusRefresh)
    \/ Step(GetStatusResult)
    \/ Free(Tick)

SpecSnapshot == Init /\ [][NextSnapshot]_vars

\* a worker in get_next and a caller in a drain-and-reinsert method, each one
\* queue operation or locked section at a time
NextRace ==
    \/ \E id \in CallerIds, p \in Priorities : Counted(Add(id, p))
    \/ \E id \in CallerIds : Counted(CancelDownload(id))
    \/ Started(GetNowaitEmpty)
    \/ Started(GetNowait)
    \/ Step(LockedDispatch)
    \/ Step(LockedSkipEmpty)
    \/ Step(LockedSkipBlock)
    \/ \E id \in CallerIds, p \in Priorities : Started(SetPriorityBegin(id, p))
    \/ \E m \in CallerMaps : Started(ReorderQueueBegin(m))
    \/ Started(GetQueueOrderBegin)
    \/ Step(DrainTake)
    \/ Step(DrainExit)
    \/ Step(DrainPut)
    \/ Step(DrainReturn)
    \/ Free(Tick)

SpecRace == Init /\ [][NextRace]_vars

\* the registry and its reaper.  Nothing in the code calls refresh on a timer:
\* it runs when a caller calls refresh or get_status, so the clock is all that
\* is sure to move.
NextReaper ==
    \/ \E id \in CallerIds, p \in Priorities : Counted(Add(id, p))
    \/ \E id \in CallerIds, s \in QueueStatus : Counted(UpdateStatus(id, s))
    \/ \E id \in CallerIds : Counted(CancelDownload(id))
    \/ Counted(Refresh)
    \/ Counted(GetStatus)
    \/ Free(Tick)

SpecReaper == Init /\ [][NextReaper]_vars /\ WF_vars(Free(Tick))

\* ---------------------------------------------------------------- C1
\* (priority, added_time) in non-decreasing order
KeyLeq(x, y) ==
    \/ x.priority < y.priority
    \/ x.priority = y.priority /\ x.added_time <= y.added_time

\* the entry the last get_next took
Taken(op) == QueueItem(op.id, op.priority, op.added_time)

\* C1: with producers that only add and a worker that only takes, every get_next
\* that returns a job removes an entry whose (priority, added_time) is lowest
\* among the entries in the queue, and successive get_next calls return entries
\* in non-decreasing (priority, added_time) order.
C1_Ordering ==
    [][nextToken' # nextToken =>
        LET got == Taken(lastOp') IN
        /\ BagIn(got, queue)
        /\ queue' = Take(queue, got)
        /\ \A j \in BagToSet(queue) : KeyLeq(got, j)
        /\ (lastOp.name = "get_next" /\ lastOp.id # NoId) => KeyLeq(Taken(lastOp), got)
      ]_vars

\* a second job was taken ahead of an entry that arrived earlier with a
\* higher priority number
C1_Witness ==
    /\ lastOp.name = "get_next"
    /\ lastOp.id # NoId
    /\ nextToken = 3
    /\ \E j \in BagToSet(queue) :
          j.added_time < lastOp.added_time /\ j.priority > lastOp.priority

\* ---------------------------------------------------------------- C2
\* C2: a job cancelled while it waited in the queue (cancel_download returned
\* true, the job had not been handed out, and it has not been added again) is
\* never returned by a later get_next.
C2_CancelledNeverDispatched ==
    lastOp.name = "get_next" => lastOp.id \notin pending

\* ---------------------------------------------------------------- C3
\* C3: when the worker holds the token get_next gave it for X and X has no
\* terminal status yet, cancel_download(X) returns true, sets that token and
\* makes X cancelled.
C3_CancelSignalsHeldToken ==
    [][\A id \in Ids :
          (/\ calls' # calls
           /\ lastOp'.name = "cancel_download"
           /\ lastOp'.id = id
           /\ held[id] # 0
           /\ status[id] \in QueueStatus \ Terminal)
          => (/\ lastOp'.ok
              /\ held[id] \in events'
              /\ status'[id] = CANCELLED)
      ]_vars

\* ---------------------------------------------------------------- C4
\* C4: every get_next call returns (a job with its token, or None); none is
\* left waiting for the queue's own lock.
C4_GetNextReturns ==
    lastOp.name = "get_next" => (lastOp.ok /\ lock = "free")

\* ---------------------------------------------------------------- C5
\* the step is a call of the method "name" on id
Called(name, id) ==
    calls' # calls /\ lastOp'.name = name /\ lastOp'.id = id

\* C5: add(X) while X is tracked as queued, downloading or available changes
\* nothing: queue, statuses, timestamps, metadata, flags all stay as they were,
\* and so does the number of queue entries of X.
C5_DuplicateAddNoOp ==
    [][\A id \in Ids :
          (Called("add", id) /\ status[id] \in {QUEUED, DOWNLOADING, AVAILABLE})
          => (/\ UNCHANGED qvars
              /\ EntriesOf(queue', id) = EntriesOf(queue, id))
      ]_vars

\* add(X, priority 1) was just called on a queued X and its one entry and its
\* metadata still carry priority 0
C5_Witness ==
    /\ lastOp.name = "add"
    /\ lastOp.id \in Ids
    /\ lastOp.n = 1
    /\ status[lastOp.id] = QUEUED
    /\ book_data[lastOp.id].info.priority = 0
    /\ EntriesOf(queue, lastOp.id) = 1
    /\ BagIn(QueueItem(lastOp.id, 0, 0), queue)

\* ---------------------------------------------------------------- C6
\* C6: cancel_download(X) returns true exactly when X is queued or downloading,
\* and then X becomes cancelled; in any other status, or for an unknown id, it
\* returns false and the queue object is unchanged; a cancel right after a
\* successful cancel of the same id returns false and leaves the status alone.
C6_CancelFailsOutsideQueuedDownloading ==
    [][\A id \in Ids :
          Called("cancel_download", id)
          => /\ IF status[id] \in {QUEUED, DOWNLOADING}
                THEN lastOp'.ok /\ status'[id] = CANCELLED
                ELSE ~lastOp'.ok /\ UNCHANGED qvars
             /\ (lastOp.name = "cancel_download" /\ lastOp.id = id /\ lastOp.ok)
                => (~lastOp'.ok /\ UNCHANGED qvars)
      ]_vars

\* a cancel of a job cancelled earlier has just been refused, and the job
\* still carries the timestamp of its one transition
C6_Witness ==
    /\ lastOp.name = "cancel_download"
    /\ ~lastOp.ok
    /\ lastOp.id \in Ids
    /\ status[lastOp.id] = CANCELLED
    /\ status_timestamps[lastOp.id] < now

\* ---------------------------------------------------------------- C7
RECURSIVE SumOver(_, _)
SumOver(S, f) ==
    IF S = {} THEN 0
    ELSE LET x == CHOOSE y \in S : TRUE IN f[x] + SumOver(S \ {x}, f)

\* the entries of id stamped t, whatever their priority
EntriesAt(q, id, t) ==
    SumOver(Priorities, [p \in Priorities |-> CopiesIn(QueueItem(id, p, t), q)])

\* q2 is q1 with every id that map names moved to the priority map gives it,
\* added_time kept, and every other entry as it was
Rekeyed(q1, q2, map) ==
    \A id \in Ids, p \in Priorities, t \in Times :
        CopiesIn(QueueItem(id, p, t), q2) =
            IF map[id] = -1 THEN CopiesIn(QueueItem(id, p, t), q1)
            ELSE IF p = map[id] THEN EntriesAt(q1, id, t)
            ELSE 0

\* C7: after set_priority(X, p) returns true, and after reorder_queue(m), every
\* entry of an id that was given a priority carries that priority and its old
\* added_time, every other entry is as before, each id has as many entries as
\* before; and a later get_next takes an entry with the lowest
\* (priority, added_time) of the re-keyed queue.
C7_ReprioritizeEffect ==
    [][/\ (calls' # calls /\ lastOp'.name \in {"set_priority", "reorder_queue"}
             /\ lastOp'.ok)
          => (/\ Rekeyed(queue, queue', lastOp'.map)
              /\ \A id \in Ids : EntriesOf(queue', id) = EntriesOf(queue, id)
              /\ lastOp'.name = "set_priority" => EntriesOf(queue', lastOp'.id) > 0)
       /\ nextToken' # nextToken
          => (/\ BagIn(Taken(lastOp'), queue)
              /\ \A j \in BagToSet(queue) : KeyLeq(Taken(lastOp'), j))
      ]_vars

\* set_priority(X, 0) has just returned true: X's entry now has priority 0 and
\* its old added_time, and sits ahead of an entry that arrived earlier
C7_Witness ==
    /\ lastOp.name = "set_priority"
    /\ lastOp.ok
    /\ \E x \in BagToSet(queue), y \in BagToSet(queue) :
          /\ x.book_id = lastOp.id
          /\ x.priority = 0
          /\ lastOp.map[x.book_id] = 0
          /\ book_data[x.book_id].info.priority = 0
          /\ x.added_time < now
          /\ y.book_id # x.book_id
          /\ y.priority = 1
          /\ y.added_time < x.added_time

\* ---------------------------------------------------------------- C8
\* the step is a refresh pass, called directly or by get_status
RefreshPass == calls' # calls /\ lastOp'.name \in {"refresh", "get_status"}

\* the recorded download path of id is unset or names no file
PathGone(id) ==
    \/ book_data[id].info.download_path = NoPath
    \/ book_data[id].info.download_path \notin fs

\* id is in a terminal status and older than the timeout
Expired(id) ==
    /\ status[id] \in Terminal
    /\ (now - status_timestamps[id]) > STATUS_TIMEOUT

\* C8: a refresh pass turns every available job whose recorded path is unset
\* or missing into done, with the timestamp of the pass; every other tracked
\* job keeps its status (unless it is a terminal job the pass evicts).
C8_StaleDemotion ==
    [][RefreshPass =>
        \A id \in Ids :
            (status[id] # Absent /\ book_data[id].present)
            => IF status[id] = AVAILABLE /\ PathGone(id)
               THEN status'[id] = DONE /\ status_timestamps'[id] = now
               ELSE Expired(id) \/ status'[id] = status[id]
      ]_vars

\* ---------------------------------------------------------------- C9
\* C9: a job that a refresh pass evicts is gone from every map: status,
\* timestamps, metadata, cancellation flags and active downloads.
C9_EvictionFullPurge ==
    [][RefreshPass =>
        \A id \in Ids :
            (status[id] # Absent /\ status'[id] = Absent)
            => (/\ status_timestamps'[id] = -1
                /\ ~book_data'[id].present
                /\ cancel_flags'[id] = 0
                /\ id \notin active_downloads')
      ]_vars

\* ---------------------------------------------------------------- C10
\* C10: a job in a terminal status does not stay there for ever: it is purged
\* (or taken out of the terminal status by a later call) whether or not anyone
\* calls get_status.
C10_TerminalEventuallyPurged ==
    \A id \in CallerIds : (status[id] \in Terminal) ~> (status[id] \notin Terminal)

\* ---------------------------------------------------------------- C11
\* C11: update_status, update_progress and update_download_path called with an
\* id that is not tracked change nothing in the queue object: no status, no
\* timestamp, no metadata entry appears for that id.
C11_UnknownIdUpdatesIgnored ==
    [][\A id \in Ids :
          (/\ calls' # calls
           /\ lastOp'.name \in {"update_status", "update_progress",
                                "update_download_path"}
           /\ lastOp'.id = id
           /\ status[id] = Absent)
          => UNCHANGED qvars
      ]_vars

\* ---------------------------------------------------------------- C12
\* the step in which get_status returns its result
GotStatus ==
    /\ reader = "refreshed"
    /\ reader' = "idle"
    /\ lastOp'.name = "get_status"
    /\ lastOp'.ok

\* C12: the result of get_status lists every job that has metadata under its
\* current status and nothing else, and lists no available job whose file is
\* unset or missing and no done, error or cancelled job older than the timeout,
\* whatever other threads did while get_status ran.
C12_SnapshotConsistent ==
    [][GotStatus =>
        \A id \in Ids :
            /\ book_data'[id].present => lastOp'.result[id] = status'[id]
            /\ ~book_data'[id].present => lastOp'.result[id] = Absent
            /\ lastOp'.result[id] = AVAILABLE => ~PathGone(id)
            /\ lastOp'.result[id] \in Terminal => ~Expired(id)
      ]_vars

\* ---------------------------------------------------------------- C13
\* C13: clear_completed removes exactly the done, error and cancelled jobs from
\* status, timestamps, metadata, cancellation flags and active downloads,
\* returns how many they were, and leaves every other job, and the dispatch
\* queue, as it found them.
C13_ClearRemovesExactlyTerminal ==
    [][Called("clear_completed", NoId) =>
        LET gone == {i \in Ids : status[i] \in Terminal} IN
        /\ lastOp'.n = Cardinality(gone)
        /\ \A i \in Ids :
              IF i \in gone
              THEN /\ status'[i] = Absent
                   /\ status_timestamps'[i] = -1
                   /\ ~book_data'[i].present
                   /\ cancel_flags'[i] = 0
                   /\ i \notin active_downloads'
              ELSE /\ status'[i] = status[i]
                   /\ status_timestamps'[i] = status_timestamps[i]
                   /\ book_data'[i] = book_data[i]
                   /\ cancel_flags'[i] = cancel_flags[i]
                   /\ (i \in active_downloads') = (i \in active_downloads)
        /\ statusKeys' = SelectSeq(statusKeys, LAMBDA k : k \notin gone)
        /\ UNCHANGED <<queue, lock, events>>
      ]_vars

\* clear_completed has just removed one job, cancelled while it waited (its
\* entry is still in the queue), and left a queued job in place
C13_Witness ==
    /\ lastOp.name = "clear_completed"
    /\ lastOp.n = 1
    /\ \E x \in pending, y \in Ids :
          /\ status[x] = Absent
          /\ ~book_data[x].present
          /\ EntriesOf(queue, x) > 0
          /\ status[y] = QUEUED
          /\ book_data[y].present

\* ---------------------------------------------------------------- C14
\* C14: in every state a cancellation flag is registered for an id exactly when
\* the status of that id is downloading.
C14_TokenIffDownloading ==
    \A id \in Ids : (cancel_flags[id] # 0) <=> (status[id] = DOWNLOADING)

\* ---------------------------------------------------------------- C15
\* C15: once a job is done, error or cancelled, update_status and
\* cancel_download leave its status as it is.
C15_TerminalAbsorbing ==
    [][\A id \in Ids :
          (/\ status[id] \in Terminal
           /\ (Called("update_status", id) \/ Called("cancel_download", id)))
          => status'[id] = status[id]
      ]_vars

\* ---------------------------------------------------------------- C16
\* C16: when get_next has returned (X, token), the status of X is downloading.
C16_DispatchSetsDownloading ==
    (lastOp.name = "get_next" /\ lastOp.id # NoId)
        => status[lastOp.id] = DOWNLOADING

\* ---------------------------------------------------------------- C17
\* C17: get_next never returns an id whose previous dispatch has not reached a
\* terminal status yet: the worker of that dispatch no longer holds its token
\* when the id is handed out again.
C17_SingleLiveDispatch ==
    [][\A id \in Ids :
          (nextToken' # nextToken /\ lastOp'.id = id) => held[id] = 0
      ]_vars

\* ---------------------------------------------------------------- C18
\* C18: every job whose status is queued has an entry in the dispatch queue.
C18_QueuedHasEntry ==
    \A id \in Ids : status[id] = QUEUED => EntriesOf(queue, id) > 0

\* ---------------------------------------------------------------- C19
\* the entries a drain loop holds outside the queue
Drained ==
    {drain.temp_items[k] : k \in (drain.back + 1)..Len(drain.temp_items)}

\* an entry get_next would hand out: its job is not cancelled
Dispatchable(item) == status[item.book_id] # CANCELLED

\* the step in which get_next returns None
ReturnedNone ==
    /\ lastOp'.name = "get_next"
    /\ lastOp'.id = NoId
    /\ lastOp'.ok
    /\ inHand' = NoItem
    /\ (calls' # calls \/ inHand # NoItem)

\* C19: get_next never sees a queue that set_priority, reorder_queue or
\* get_queue_order has partly drained: it returns None only when no
\* dispatchable entry exists, in the queue or in the hands of a drain loop;
\* the entry it takes has the lowest (priority, added_time) of all of them; and
\* set_priority(X) on a queued X does not return false while get_next has X's
\* entry in hand.
C19_PopAtomicWithDrain ==
    [][/\ ReturnedNone
          => \A item \in Drained \cup BagToSet(queue) : ~Dispatchable(item)
       /\ (inHand = NoItem /\ inHand' # NoItem)
          => \A item \in Drained : KeyLeq(inHand', item)
       /\ (drain.call.name = "set_priority" /\ drain' = NoDrain /\ ~lastOp'.ok)
          => inHand.book_id # lastOp'.id
      ]_vars

\* ---------------------------------------------------------------- C20
\* C20: a refresh pass never removes a job whose status is queued, downloading
\* or available, however old its timestamp.
C20_EvictionTerminalOnly ==
    [][RefreshPass =>
        \A id \in Ids :
            status[id] \in {QUEUED, DOWNLOADING, AVAILABLE} => status'[id] # Absent
      ]_vars

\* ---------------------------------------------------------------- C21
\* the place of id among the keys of self._status: with adds and get_next
\* alone an id is added once, and the keys are in the order of the adds
Arrival(id) == CHOOSE k \in 1..Len(statusKeys) : statusKeys[k] = id

\* C21: of two jobs with the same priority, the one whose add took effect
\* first is returned by get_next first, also when the clock reading did not
\* move between the two adds.
C21_EqualPriorityFifo ==
    [][nextToken' # nextToken =>
        \A j \in BagToSet(queue) :
            (j.priority = lastOp'.priority /\ j.book_id # lastOp'.id)
            => Arrival(lastOp'.id) < Arrival(j.book_id)
      ]_vars

\* ---------------------------------------------------------------- C22
\* C22: set_priority and reorder_queue leave the priority of a job that is not
\* queued as it was, in its queue entries and in its metadata; set_priority on
\* such a job returns false.
C22_PriorityFixedUnlessQueued ==
    [][(calls' # calls /\ lastOp'.name \in {"set_priority", "reorder_queue"})
        => \A id \in Ids :
              status[id] # QUEUED
              => /\ book_data'[id] = book_data[id]
                 /\ \A p \in Priorities, t \in Times :
                        CopiesIn(QueueItem(id, p, t), queue')
                            = CopiesIn(QueueItem(id, p, t), queue)
                 /\ (lastOp'.name = "set_priority" /\ lastOp'.id = id)
                        => ~lastOp'.ok
      ]_vars

\* ---------------------------------------------------------------- C23
\* C23: get_queue_order leaves the dispatch queue with the same entries, each
\* as many times as before, changes no status, timestamp, metadata or flag, and
\* returns the entries of the jobs that have metadata sorted ascending by
\* (priority, added_time).
C23_QueueOrderNonDestructive ==
    [][Called("get_queue_order", NoId) =>
        LET order == lastOp'.order IN
        /\ \A id \in Ids, p \in Priorities, t \in Times :
              CopiesIn(QueueItem(id, p, t), queue')
                  = CopiesIn(QueueItem(id, p, t), queue)
        /\ BagToSet(queue') = BagToSet(queue)
        /\ UNCHANGED <<lock, statusKeys, status, book_data, status_timestamps,
                       cancel_flags, active_downloads, events>>
        /\ \A k \in 1..(Len(order) - 1) : KeyLeq(order[k], order[k + 1])
        /\ \A item \in BagToSet(queue) :
              Cardinality({k \in 1..Len(order) : order[k] = item})
                  = IF book_data[item.book_id].present THEN CopiesIn(item, queue)
                    ELSE 0
        /\ \A k \in 1..Len(order) : BagIn(order[k], queue)
      ]_vars

\* get_queue_order has just listed two entries, the one that arrived later
\* first because its priority number is lower, and both are still queued
C23_Witness ==
    /\ lastOp.name = "get_queue_order"
    /\ Len(lastOp.order) = 2
    /\ lastOp.order[1].priority < lastOp.order[2].priority
    /\ lastOp.order[1].added_time > lastOp.order[2].added_time
    /\ BagIn(lastOp.order[1], queue)
    /\ BagIn(lastOp.order[2], queue)
    /\ QueueSize = 2

\* ---------------------------------------------------------------- C24
\* C24: in every reachable state each id that has a status has a metadata
\* entry and a status timestamp, and no refresh or get_status call has ended
\* with an exception.
C24_StatusHasMetadata ==
    /\ \A id \in Ids :
          status[id] # Absent
          => (book_data[id].present /\ status_timestamps[id] # -1)
    /\ lastOp.name \in {"refresh", "get_status"} => lastOp.ok

\* ---------------------------------------------------------------- C25
\* the Event objects created so far
Created == 1..(nextToken - 1)

\* the step in which get_next returns a job
Dispatched ==
    /\ lastOp'.name = "get_next"
    /\ lastOp'.id # NoId
    /\ queue' # queue

\* C25: the token get_next returns with a job is a new Event: it is none of
\* the Events created before, it is not set, also when an earlier token of the
\* same id was set by a cancel, and it is the one registered for the id.
C25_FreshTokenPerDispatch ==
    [][Dispatched =>
        /\ lastOp'.tok \notin Created
        /\ lastOp'.tok \notin events'
        /\ cancel_flags'[lastOp'.id] = lastOp'.tok
        /\ held'[lastOp'.id] = lastOp'.tok
      ]_vars

\* a job whose earlier token was set by a cancel has been dispatched again,
\* with a later token that is not set
C25_Witness ==
    /\ lastOp.name = "get_next"
    /\ lastOp.id # NoId
    /\ lastOp.tok \notin events
    /\ cancel_flags[lastOp.id] = lastOp.tok
    /\ \E t \in events : t < lastOp.tok
    /\ status[lastOp.id] = QUEUED
    /\ EntriesOf(queue, lastOp.id) = 0
    /\ \A i \in Ids \ {lastOp.id} : status[i] = Absent

\* ---------------------------------------------------------------- C26
\* C26: a call _get(url, retry=n) makes at most n + 1 attempts, and its retry
\* counter never goes below zero.
C26_RetryBounded ==
    getAt # "idle" => (attempts <= asked + 1 /\ retry >= 0)
====
